---- MODULE Spec2Model ----
(***************************************************************************)
(* Model of the useWebRTC hook (src/src/hooks/useWebRTC.ts): the React     *)
(* state and refs of one hook instance, the signaling socket it opens, the *)
(* RTCPeerConnection objects it creates and the local media streams it     *)
(* acquires, from the first render of the hook until after its unmount.    *)
(*                                                                         *)
(* React semantics used: a callback built with useCallback([localStream])  *)
(* sees the localStream of the render that built it (renderLS), not the    *)
(* latest state; a render in which localStream differs from the previous   *)
(* render changes every dependency of the connect effect, so React runs    *)
(* the previous effect's cleanup and then the effect again.  The           *)
(* continuation of an async function runs in a microtask, before the next  *)
(* render or socket event.                                                 *)
(***************************************************************************)
EXTENDS Integers, Sequences, FiniteSets, TLC

\* Bounds of the model.
MaxPc == 2          \* RTCPeerConnection objects ever created
MaxStreams == 2     \* successful getUserMedia calls
MaxSockets == 4     \* io() calls
MaxEvents == 3      \* inbound signaling events processed

\* Remote transport sessions (socket ids) and the participant identity the
\* signaling server reports for each; s1 and s2 are one user connected twice.
\* s3 is a session of another user that left before the local join: only
\* its late user-left event is ever delivered.
SocketIds == {"s1", "s2"}
Leavers == SocketIds \cup {"s3"}
LocalSocketId == "local"
\* The userId prop of the local participant, and the lexicographic order of
\* the participant ids in use.
LocalUserId == "P0"
IdRank(p) == IF p = "P0" THEN 0 ELSE IF p = "P1" THEN 1 ELSE 2
IdLess(a, b) == IdRank(a) < IdRank(b)
Ident(s) == IF s = "s3" THEN "P2" ELSE "P1"
PartIds == {Ident(s) : s \in SocketIds}

VARIABLES
  phase,              \* "rendered" (effect not yet run), "mounted", "unmounted"
  participants,       \* useState Map<socketId, Participant>, in insertion order
  localStream,        \* useState MediaStream | null  (0 = null, else stream id)
  renderLS,           \* localStream as captured by the callbacks of the last render
  isAudioEnabled,
  isVideoEnabled,
  isConnected,
  socketRef,          \* socketRef.current (0 = null, else socket id)
  peerConnectionsRef, \* peerConnectionsRef.current: socketId -> pc id (0 = no entry)
  initializationRef,
  pcs,                \* every RTCPeerConnection created, in creation order
  streams,            \* every MediaStream obtained from getUserMedia
  sockets,            \* every Socket returned by io()
  acqPending,         \* getUserMedia calls not yet settled
  acqStarted,         \* getUserMedia calls made since the first render
  iceLost,            \* senders of a candidate that was neither applied nor kept
  nEvents,            \* inbound signaling events processed
  last                \* the operation performed by the last step

vars == <<phase, participants, localStream, renderLS, isAudioEnabled,
          isVideoEnabled, isConnected, socketRef, peerConnectionsRef,
          initializationRef, pcs, streams, sockets, acqPending, acqStarted,
          iceLost, nEvents, last>>

----------------------------------------------------------------------------
\* Helpers on sequences and on the participants Map.

RECURSIVE SeqToSetR(_, _)
SeqToSetR(s, i) == IF i > Len(s) THEN {} ELSE {s[i]} \cup SeqToSetR(s, i + 1)
Range(s) == SeqToSetR(s, 1)

\* Sequences of pairwise distinct socket ids (the roster payloads).
Rosters == {r \in UNION {[1..n -> SocketIds] : n \in 0..Cardinality(SocketIds)} :
              \A i, j \in DOMAIN r : i # j => r[i] # r[j]}

Keys(m) == {m[i].socketId : i \in DOMAIN m}

\* Index of the entry with key k, 0 if none.
IndexOfKey(m, k) ==
  IF k \in Keys(m) THEN CHOOSE i \in DOMAIN m : m[i].socketId = k ELSE 0

\* Map.set: an existing key keeps its position, a new key goes last.
MapSet(m, k, v) ==
  IF k \in Keys(m) THEN [m EXCEPT ![IndexOfKey(m, k)] = v] ELSE Append(m, v)

\* Map.delete.
MapDelete(m, k) ==
  LET i == IndexOfKey(m, k)
  IN IF i = 0 THEN m ELSE SubSeq(m, 1, i - 1) \o SubSeq(m, i + 1, Len(m))

\* Array.from(map.values()).find(p => p.id === participantId): index, 0 if none.
FindById(m, pid) ==
  IF \E i \in DOMAIN m : m[i].id = pid
  THEN CHOOSE i \in DOMAIN m : m[i].id = pid /\ \A j \in 1..(i - 1) : m[j].id # pid
  ELSE 0

\* { ...participant, audioEnabled: true, videoEnabled: true }
NewParticipant(s) ==
  [socketId |-> s, id |-> Ident(s), audioEnabled |-> TRUE, videoEnabled |-> TRUE,
   stream |-> 0]

\* Variant of participantsMap that keys the Map by participant.id.
RECURSIVE participantsMapById(_, _)
participantsMapById(r, n) ==
  IF n = 0 THEN <<>>
  ELSE LET m == participantsMapById(r, n - 1)
           j == FindById(m, Ident(r[n]))
       IN IF j # 0 THEN [m EXCEPT ![j] = NewParticipant(r[n])]
          ELSE Append(m, NewParticipant(r[n]))

\* The Map built by the room-participants handler from the first n entries
\* of the roster: participantsMap.set(participant.socketId, {...}).
RECURSIVE participantsMap(_, _)
participantsMap(r, n) ==
  IF n = 0 THEN <<>>
  ELSE MapSet(participantsMap(r, n - 1), r[n], NewParticipant(r[n]))

\* Variant of createOffer that does not register the connection.
createOffer_registry_none(reg, r, base) == reg

\* peerConnectionsRef.current after createOffer has run for every entry of
\* roster r, the new connections being numbered from base + 1 in roster order.
createOffer_registry(reg, r, base) ==
  [s \in SocketIds |-> IF \E i \in DOMAIN r : r[i] = s
                       THEN base + (CHOOSE i \in DOMAIN r : r[i] = s /\
                                      \A j \in DOMAIN r : r[j] = s => j <= i)
                       ELSE reg[s]]

\* Variant of the user-left lookup with the comparison inverted.
userLeft_find_ne(m, pid) ==
  IF \E i \in DOMAIN m : m[i].id # pid
  THEN CHOOSE i \in DOMAIN m : m[i].id # pid /\ \A j \in 1..(i - 1) : m[j].id = pid
  ELSE 0

\* The entry the user-left handler picks: the first one whose id is the
\* participantId of the event.
userLeft_find(m, pid) == FindById(m, pid)

\* Variant of the user-left handler that leaves the closed connection
\* registered.
userLeft_registry_keep(reg, sid) == reg

\* peerConnectionsRef.current.delete(participant.socketId)
userLeft_registry(reg, sid) == [reg EXCEPT ![sid] = 0]

\* The record kept in last: the operation, the session it is about, the
\* roster it carried, the events it emitted, the connections it created,
\* whether the previous operation was the same one, and (for the toggles) the
\* values it found.
NoOp == [op |-> "none", sid |-> "-", roster |-> <<>>, emits |-> <<>>, created |-> {},
         rep |-> FALSE, pre |-> <<>>]
Op(name, sid, roster, emits, created) ==
  [op |-> name, sid |-> sid, roster |-> roster, emits |-> emits, created |-> created,
   rep |-> (last.op = name), pre |-> <<>>]

Msg(type, target, val) == [type |-> type, target |-> target, val |-> val]

----------------------------------------------------------------------------
\* Browser objects.

\* new RTCPeerConnection(PC_CONFIG), with the tracks of stream st added (0:
\* none).  neg is "pending" while the awaits of createOffer / handleOffer
\* are outstanding; remote tells whether a remote description is set, and
\* answers counts the answers the browser has applied.
createPeerConnection(peer, role, st) ==
  [peer |-> peer, role |-> role, closed |-> FALSE, remote |-> FALSE, tracks |-> st,
   neg |-> "pending", emitted |-> 0, ice |-> 0, answers |-> 0]

\* pc.close()
ClosePc(pc) == [pc EXCEPT !.closed = TRUE]

\* pc.signalingState
SignalingState(pc) ==
  IF pc.closed THEN "closed"
  ELSE IF pc.role = "initiator"
  THEN (IF pc.neg = "done" /\ ~pc.remote THEN "have-local-offer" ELSE "stable")
  ELSE (IF pc.neg = "done" THEN "stable" ELSE "have-remote-offer")

\* A stream as returned by getUserMedia: live tracks, both enabled.
NewStream == [stopped |-> FALSE, audio |-> TRUE, video |-> TRUE]

\* io(socketUrl) followed by the handler registrations of connectToRoom:
\* hLS is the localStream captured by handleOffer, hStream the stream
\* captured by the room-participants handler.
NewSocket(hLS, hStream) ==
  [open |-> TRUE, connected |-> FALSE, hLS |-> hLS, hStream |-> hStream]

----------------------------------------------------------------------------
Init ==
  /\ phase = "rendered"
  /\ participants = <<>>
  /\ localStream = 0
  /\ renderLS = 0
  /\ isAudioEnabled = TRUE
  /\ isVideoEnabled = TRUE
  /\ isConnected = FALSE
  /\ socketRef = 0
  /\ peerConnectionsRef = [s \in SocketIds |-> 0]
  /\ initializationRef = FALSE
  /\ pcs = <<>>
  /\ streams = <<>>
  /\ sockets = <<>>
  /\ acqPending = 0
  /\ acqStarted = 0
  /\ iceLost = {}
  /\ nEvents = 0
  /\ last = NoOp


----------------------------------------------------------------------------
\* leaveRoom, as a function of the state and of the localStream its closure
\* captured (cl).

Registered == {peerConnectionsRef[s] : s \in SocketIds} \ {0}

\* peerConnectionsRef.current.forEach(pc => pc.close())
leaveRoom_pcs == [i \in DOMAIN pcs |-> IF i \in Registered THEN ClosePc(pcs[i]) ELSE pcs[i]]

\* Variant of the clearing of the registry that drops one entry per call.
leaveRoom_registry_one(reg) ==
  IF \E s \in SocketIds : reg[s] # 0
  THEN [reg EXCEPT ![CHOOSE s \in SocketIds : reg[s] # 0] = 0]
  ELSE reg

\* peerConnectionsRef.current.clear()
leaveRoom_registry(reg) == [s \in SocketIds |-> 0]

\* if (localStream) localStream.getTracks().forEach(track => track.stop())
leaveRoom_streams(cl) ==
  IF cl # 0 THEN [streams EXCEPT ![cl].stopped = TRUE] ELSE streams

\* if (localStream) setLocalStream(null)
leaveRoom_localStream(cl) == IF cl # 0 THEN 0 ELSE localStream

\* if (socketRef.current) socketRef.current.disconnect()
leaveRoom_sockets ==
  IF socketRef # 0 THEN [sockets EXCEPT ![socketRef].open = FALSE] ELSE sockets

\* The whole of leaveRoom except the refs the connect effect writes after it.
leaveRoom(cl) ==
  /\ pcs' = leaveRoom_pcs
  /\ peerConnectionsRef' = leaveRoom_registry(peerConnectionsRef)
  /\ streams' = leaveRoom_streams(cl)
  /\ localStream' = leaveRoom_localStream(cl)
  /\ participants' = <<>>
  /\ isConnected' = FALSE

----------------------------------------------------------------------------
\* The connect effect.

\* First run of the effect, after the first render: localStream is null, so
\* initializeMedia calls getUserMedia and connectToRoom waits for it.
Mount ==
  /\ phase = "rendered"
  /\ ~initializationRef
  /\ phase' = "mounted"
  /\ initializationRef' = TRUE
  /\ acqPending' = acqPending + 1
  /\ acqStarted' = acqStarted + 1
  /\ last' = Op("effect", "-", <<>>, <<>>, {})
  /\ UNCHANGED <<participants, localStream, renderLS, isAudioEnabled, isVideoEnabled,
                 isConnected, socketRef, peerConnectionsRef, pcs, streams, sockets,
                 iceLost, nEvents>>

\* A render that sees a changed localStream: the callbacks are rebuilt, the
\* old effect's cleanup calls the old leaveRoom, and the effect runs again.
\* leaveRoom has reset initializationRef, so connectToRoom starts; with a
\* stream in the new closure initializeMedia returns it and the socket is
\* opened in the following microtask, otherwise getUserMedia is called.
Render ==
  /\ phase = "mounted"
  /\ renderLS # localStream
  /\ localStream # 0 => Len(sockets) < MaxSockets
  /\ renderLS' = localStream
  /\ leaveRoom(renderLS)
  /\ initializationRef' = TRUE
  /\ IF localStream # 0
     THEN /\ sockets' = Append(leaveRoom_sockets, NewSocket(localStream, localStream))
          /\ socketRef' = Len(sockets) + 1
          /\ UNCHANGED <<acqPending, acqStarted>>
     ELSE /\ sockets' = leaveRoom_sockets
          /\ socketRef' = 0
          /\ acqPending' = acqPending + 1
          /\ acqStarted' = acqStarted + 1
  /\ last' = Op("effect", "-", <<>>, <<>>, {})
  /\ UNCHANGED <<phase, isAudioEnabled, isVideoEnabled, iceLost, nEvents>>

\* getUserMedia resolves: setLocalStream(stream), then connectToRoom goes on
\* to open the socket and register its handlers.  The handlers were built by
\* the render that started the acquisition, whose localStream was null.
MediaResolved ==
  /\ acqPending > 0
  /\ Len(streams) < MaxStreams
  /\ Len(sockets) < MaxSockets
  /\ acqPending' = acqPending - 1
  /\ streams' = Append(streams, NewStream)
  /\ localStream' = Len(streams) + 1
  /\ sockets' = Append(sockets, NewSocket(0, Len(streams) + 1))
  /\ socketRef' = Len(sockets) + 1
  /\ last' = Op("acquired", "-", <<>>, <<>>, {})
  /\ UNCHANGED <<phase, participants, renderLS, isAudioEnabled, isVideoEnabled,
                 isConnected, peerConnectionsRef, initializationRef, pcs, acqStarted,
                 iceLost, nEvents>>

\* getUserMedia resolves and setLocalStream(stream) is called, but io() (or a
\* handler registration) throws: the catch block of connectToRoom logs the
\* error and resets the guard; no socket is stored.
MediaResolvedIoThrows ==
  /\ acqPending > 0
  /\ Len(streams) < MaxStreams
  /\ acqPending' = acqPending - 1
  /\ streams' = Append(streams, NewStream)
  /\ localStream' = Len(streams) + 1
  /\ initializationRef' = FALSE
  /\ last' = Op("join-failed", "-", <<>>, <<>>, {})
  /\ UNCHANGED <<phase, participants, renderLS, isAudioEnabled, isVideoEnabled,
                 isConnected, socketRef, sockets, peerConnectionsRef, pcs, acqStarted,
                 iceLost, nEvents>>

\* Variant of the catch block that calls connectToRoom again.
MediaRejected_retry ==
  /\ acqPending > 0
  /\ acqStarted <= MaxStreams
  /\ acqStarted' = acqStarted + 1
  /\ last' = Op("acquire-failed", "-", <<>>, <<>>, {})
  /\ UNCHANGED <<phase, participants, localStream, renderLS, isAudioEnabled,
                 isVideoEnabled, isConnected, socketRef, peerConnectionsRef, pcs,
                 streams, sockets, acqPending, initializationRef, iceLost, nEvents>>

\* getUserMedia rejects: the catch block of connectToRoom resets the guard.
MediaRejected ==
  /\ acqPending > 0
  /\ acqPending' = acqPending - 1
  /\ initializationRef' = FALSE
  /\ last' = Op("acquire-failed", "-", <<>>, <<>>, {})
  /\ UNCHANGED <<phase, participants, localStream, renderLS, isAudioEnabled,
                 isVideoEnabled, isConnected, socketRef, peerConnectionsRef, pcs,
                 streams, sockets, acqStarted, iceLost, nEvents>>

\* The hook's leaveRoom, called by the component that uses the hook.
LeaveRoom ==
  /\ phase = "mounted"
  /\ leaveRoom(renderLS)
  /\ sockets' = leaveRoom_sockets
  /\ socketRef' = 0
  /\ initializationRef' = FALSE
  /\ last' = Op("leaveRoom", "-", <<>>, <<>>, {})
  /\ UNCHANGED <<phase, renderLS, isAudioEnabled, isVideoEnabled, acqPending,
                 acqStarted, iceLost, nEvents>>

\* Unmount: the cleanup of the last effect calls its leaveRoom.
Unmount ==
  /\ phase = "mounted"
  /\ phase' = "unmounted"
  /\ leaveRoom(renderLS)
  /\ sockets' = leaveRoom_sockets
  /\ socketRef' = 0
  /\ initializationRef' = FALSE
  /\ last' = Op("leaveRoom", "-", <<>>, <<>>, {})
  /\ UNCHANGED <<renderLS, isAudioEnabled, isVideoEnabled, acqPending, acqStarted,
                 iceLost, nEvents>>

----------------------------------------------------------------------------
\* The signaling socket.  Events are delivered on a socket that is open and
\* has joined the room.

Joined(k) == k \in DOMAIN sockets /\ sockets[k].open /\ sockets[k].connected

\* socket.on('connect'): setIsConnected(true), then join-room on socketRef.current.
SocketConnect(k) ==
  /\ k \in DOMAIN sockets
  /\ sockets[k].open
  /\ ~sockets[k].connected
  /\ sockets' = [sockets EXCEPT ![k].connected = TRUE]
  /\ isConnected' = TRUE
  /\ last' = Op("connect", "-", <<>>,
                IF socketRef # 0 THEN <<Msg("join-room", "room", socketRef)>> ELSE <<>>, {})
  /\ UNCHANGED <<phase, participants, localStream, renderLS, isAudioEnabled,
                 isVideoEnabled, socketRef, peerConnectionsRef, initializationRef,
                 pcs, streams, acqPending, acqStarted, iceLost, nEvents>>

\* socket.on('room-participants'): a fresh Map with one entry per listed
\* participant, and createOffer(participant.socketId, stream) for each, which
\* creates and registers the connection before its first await.
RoomParticipants(k, r) ==
  /\ Joined(k)
  /\ nEvents < MaxEvents
  /\ Len(pcs) + Len(r) <= MaxPc
  /\ participants' = participantsMap(r, Len(r))
  /\ pcs' = pcs \o [i \in 1..Len(r) |->
                      createPeerConnection(r[i], "initiator", sockets[k].hStream)]
  /\ peerConnectionsRef' = createOffer_registry(peerConnectionsRef, r, Len(pcs))
  /\ nEvents' = nEvents + 1
  /\ last' = Op("room-participants", "-", r, <<>>, (Len(pcs) + 1)..(Len(pcs) + Len(r)))
  /\ UNCHANGED <<phase, localStream, renderLS, isAudioEnabled, isVideoEnabled,
                 isConnected, socketRef, initializationRef, streams, sockets,
                 acqPending, acqStarted, iceLost>>

\* Variant of the user-joined handler that also creates and registers a
\* connection for the new session.
UserJoined_responder(k, s) ==
  /\ Joined(k)
  /\ nEvents < MaxEvents
  /\ Len(pcs) < MaxPc
  /\ participants' = MapSet(participants, s, NewParticipant(s))
  /\ pcs' = Append(pcs, createPeerConnection(s, "responder", sockets[k].hLS))
  /\ peerConnectionsRef' = [peerConnectionsRef EXCEPT ![s] = Len(pcs) + 1]
  /\ nEvents' = nEvents + 1
  /\ last' = Op("user-joined", s, <<>>, <<>>, {Len(pcs) + 1})
  /\ UNCHANGED <<phase, localStream, renderLS, isAudioEnabled, isVideoEnabled,
                 isConnected, socketRef, initializationRef, streams, sockets,
                 acqPending, acqStarted, iceLost>>

\* socket.on('user-joined')
UserJoined(k, s) ==
  /\ Joined(k)
  /\ nEvents < MaxEvents
  /\ participants' = MapSet(participants, s, NewParticipant(s))
  /\ nEvents' = nEvents + 1
  /\ last' = Op("user-joined", s, <<>>, <<>>, {})
  /\ UNCHANGED <<phase, localStream, renderLS, isAudioEnabled, isVideoEnabled,
                 isConnected, socketRef, peerConnectionsRef, initializationRef, pcs,
                 streams, sockets, acqPending, acqStarted, iceLost>>

\* socket.on('user-left'): session s has left; the event carries only its
\* participantId, and the handler removes the first entry with that id.
UserLeft(k, s) ==
  LET i == userLeft_find(participants, Ident(s))
      sid == participants[i].socketId
      pc == peerConnectionsRef[sid]
  IN /\ Joined(k)
     /\ nEvents < MaxEvents
     /\ IF i # 0
        THEN /\ participants' = MapDelete(participants, sid)
             /\ IF pc # 0
                THEN /\ pcs' = [pcs EXCEPT ![pc] = ClosePc(pcs[pc])]
                     /\ peerConnectionsRef' = userLeft_registry(peerConnectionsRef, sid)
                ELSE UNCHANGED <<pcs, peerConnectionsRef>>
        ELSE UNCHANGED <<participants, pcs, peerConnectionsRef>>
     /\ nEvents' = nEvents + 1
     /\ last' = Op("user-left", s, <<>>, <<>>, {})
     /\ UNCHANGED <<phase, localStream, renderLS, isAudioEnabled, isVideoEnabled,
                    isConnected, socketRef, initializationRef, streams, sockets,
                    acqPending, acqStarted, iceLost>>

\* handleOffer up to its first await: a new connection is registered under
\* the sender, the tracks of the handler's localStream are added, and
\* setRemoteDescription(offer) is started.
HandleOffer(k, s) ==
  /\ Joined(k)
  /\ nEvents < MaxEvents
  /\ Len(pcs) < MaxPc
  /\ pcs' = Append(pcs, [createPeerConnection(s, "responder", sockets[k].hLS)
                           EXCEPT !.remote = TRUE])
  /\ peerConnectionsRef' = [peerConnectionsRef EXCEPT ![s] = Len(pcs) + 1]
  /\ nEvents' = nEvents + 1
  /\ last' = Op("offer", s, <<>>, <<>>, {Len(pcs) + 1})
  /\ UNCHANGED <<phase, participants, localStream, renderLS, isAudioEnabled,
                 isVideoEnabled, isConnected, socketRef, initializationRef, streams,
                 sockets, acqPending, acqStarted, iceLost>>

\* A remote session answers only an offer that was sent to it.
OfferSentTo(s) ==
  \E i \in DOMAIN pcs : pcs[i].peer = s /\ pcs[i].role = "initiator" /\ pcs[i].emitted = 1

\* Variant of handleAnswer on a browser that applies an answer in any
\* signaling state.
HandleAnswer_unchecked(k, s) ==
  LET pc == peerConnectionsRef[s]
  IN /\ Joined(k)
     /\ nEvents < MaxEvents
     /\ OfferSentTo(s)
     /\ IF pc # 0
        THEN pcs' = [pcs EXCEPT ![pc].remote = TRUE,
                                ![pc].answers = pcs[pc].answers + 1]
        ELSE UNCHANGED pcs
     /\ nEvents' = nEvents + 1
     /\ last' = Op("answer", s, <<>>, <<>>, {})
     /\ UNCHANGED <<phase, participants, localStream, renderLS, isAudioEnabled,
                    isVideoEnabled, isConnected, socketRef, peerConnectionsRef,
                    initializationRef, streams, sockets, acqPending, acqStarted,
                    iceLost>>

\* handleAnswer: setRemoteDescription(answer) on the registered connection;
\* the browser rejects it unless a local offer is pending.
HandleAnswer(k, s) ==
  LET pc == peerConnectionsRef[s]
  IN /\ Joined(k)
     /\ nEvents < MaxEvents
     /\ OfferSentTo(s)
     /\ IF pc # 0 /\ SignalingState(pcs[pc]) = "have-local-offer"
        THEN pcs' = [pcs EXCEPT ![pc].remote = TRUE,
                                ![pc].answers = pcs[pc].answers + 1]
        ELSE UNCHANGED pcs
     /\ nEvents' = nEvents + 1
     /\ last' = Op("answer", s, <<>>, <<>>, {})
     /\ UNCHANGED <<phase, participants, localStream, renderLS, isAudioEnabled,
                    isVideoEnabled, isConnected, socketRef, peerConnectionsRef,
                    initializationRef, streams, sockets, acqPending, acqStarted,
                    iceLost>>

\* The session of s is known: it is listed or it has a registered connection.
SessionAlive(s) == s \in Keys(participants) \/ peerConnectionsRef[s] # 0

\* handleIceCandidate: addIceCandidate on the registered connection, which
\* the browser rejects while no remote description is set; with no
\* registered connection the candidate is dropped.
HandleIceCandidate(k, s) ==
  LET pc == peerConnectionsRef[s]
  IN /\ Joined(k)
     /\ nEvents < MaxEvents
     /\ IF pc # 0 /\ pcs[pc].remote
        THEN /\ pcs' = [pcs EXCEPT ![pc].ice = pcs[pc].ice + 1]
             /\ UNCHANGED iceLost
        ELSE /\ iceLost' = IF SessionAlive(s) THEN iceLost \cup {s} ELSE iceLost
             /\ UNCHANGED pcs
     /\ nEvents' = nEvents + 1
     /\ last' = Op("ice-candidate", s, <<>>, <<>>, {})
     /\ UNCHANGED <<phase, participants, localStream, renderLS, isAudioEnabled,
                    isVideoEnabled, isConnected, socketRef, peerConnectionsRef,
                    initializationRef, streams, sockets, acqPending, acqStarted>>

----------------------------------------------------------------------------
\* The awaits of createOffer (createOffer, setLocalDescription) and of
\* handleOffer (setRemoteDescription, createAnswer, setLocalDescription)
\* resolve, and the code after them emits the description on
\* socketRef.current.  The browser never resolves an operation of a closed
\* connection, so for a closed connection the code after the await never runs.
\* Variant of the negotiation step that sends every description as an answer.
NegStep_answer(i) ==
  /\ i \in DOMAIN pcs
  /\ pcs[i].neg = "pending"
  /\ ~pcs[i].closed
  /\ pcs' = [pcs EXCEPT ![i].neg = "done",
                        ![i].emitted = IF socketRef # 0 THEN 1 ELSE 0]
  /\ last' = Op("negotiation", pcs[i].peer, <<>>,
                IF socketRef # 0 THEN <<Msg("answer", pcs[i].peer, i)>> ELSE <<>>, {})
  /\ UNCHANGED <<phase, participants, localStream, renderLS, isAudioEnabled,
                 isVideoEnabled, isConnected, socketRef, peerConnectionsRef,
                 initializationRef, streams, sockets, acqPending, acqStarted,
                 iceLost, nEvents>>

NegStep(i) ==
  /\ i \in DOMAIN pcs
  /\ pcs[i].neg = "pending"
  /\ ~pcs[i].closed
  /\ pcs' = [pcs EXCEPT ![i].neg = "done",
                        ![i].emitted = IF socketRef # 0 THEN 1 ELSE 0]
  /\ last' = Op("negotiation", pcs[i].peer, <<>>,
                IF socketRef # 0
                THEN <<Msg(IF pcs[i].role = "initiator" THEN "offer" ELSE "answer",
                           pcs[i].peer, i)>>
                ELSE <<>>, {})
  /\ UNCHANGED <<phase, participants, localStream, renderLS, isAudioEnabled,
                 isVideoEnabled, isConnected, socketRef, peerConnectionsRef,
                 initializationRef, streams, sockets, acqPending, acqStarted,
                 iceLost, nEvents>>

----------------------------------------------------------------------------
\* Variant of the ontrack handler that updates the first entry of the Map.
ontrack_participant_first(m, sid) == IF Len(m) > 0 THEN 1 ELSE 0

\* updated.get(participantSocketId) in the ontrack handler: index, 0 if none.
ontrack_participant(m, sid) == IndexOfKey(m, sid)

\* pc.ontrack: the connection reports an inbound track, which the browser does
\* only for an open connection with a remote description; the stream (named
\* by the connection that received it) is stored in the entry of the session
\* the connection was created for, if there is one.
OnTrack(i) ==
  LET n == ontrack_participant(participants, pcs[i].peer)
  IN /\ phase = "mounted"
     /\ i \in DOMAIN pcs
     /\ ~pcs[i].closed
     /\ pcs[i].remote
     /\ participants' = IF n # 0 THEN [participants EXCEPT ![n].stream = i]
                        ELSE participants
     /\ last' = Op("track", pcs[i].peer, <<>>, <<>>, {})
     /\ UNCHANGED <<phase, localStream, renderLS, isAudioEnabled, isVideoEnabled,
                    isConnected, socketRef, peerConnectionsRef, initializationRef, pcs,
                    streams, sockets, acqPending, acqStarted, iceLost, nEvents>>

\* socket.on('participant-audio-toggle'), sent by the server when session s
\* has toggled: the event carries the participantId of s, and the first entry
\* with that id gets the new audioEnabled.
ParticipantAudioToggle(k, s, v) ==
  LET n == FindById(participants, Ident(s))
  IN /\ Joined(k)
     /\ nEvents < MaxEvents
     /\ participants' = IF n # 0 THEN [participants EXCEPT ![n].audioEnabled = v]
                        ELSE participants
     /\ nEvents' = nEvents + 1
     /\ last' = [Op("participant-audio-toggle", s, <<>>, <<>>, {}) EXCEPT !.pre = <<v>>]
     /\ UNCHANGED <<phase, localStream, renderLS, isAudioEnabled, isVideoEnabled,
                    isConnected, socketRef, peerConnectionsRef, initializationRef, pcs,
                    streams, sockets, acqPending, acqStarted, iceLost>>

\* socket.on('participant-video-toggle')
ParticipantVideoToggle(k, s, v) ==
  LET n == FindById(participants, Ident(s))
  IN /\ Joined(k)
     /\ nEvents < MaxEvents
     /\ participants' = IF n # 0 THEN [participants EXCEPT ![n].videoEnabled = v]
                        ELSE participants
     /\ nEvents' = nEvents + 1
     /\ last' = [Op("participant-video-toggle", s, <<>>, <<>>, {}) EXCEPT !.pre = <<v>>]
     /\ UNCHANGED <<phase, localStream, renderLS, isAudioEnabled, isVideoEnabled,
                    isConnected, socketRef, peerConnectionsRef, initializationRef, pcs,
                    streams, sockets, acqPending, acqStarted, iceLost>>

----------------------------------------------------------------------------
\* Local media toggles, called by the component with the callbacks of the
\* last render.

\* Variant of toggleAudio that inverts the mirrored flag instead of copying
\* the track's.
toggleAudio_invert ==
  /\ phase = "mounted"
  /\ IF renderLS # 0
     THEN /\ streams' = [streams EXCEPT ![renderLS].audio = ~streams[renderLS].audio]
          /\ isAudioEnabled' = ~isAudioEnabled
          /\ last' = [Op("toggleAudio", "-", <<>>,
                         IF socketRef # 0
                         THEN <<Msg("toggle-audio", "room", ~isAudioEnabled)>>
                         ELSE <<>>, {})
                        EXCEPT !.pre = <<localStream, streams[renderLS].audio,
                                         isAudioEnabled>>]
     ELSE /\ UNCHANGED <<streams, isAudioEnabled>>
          /\ last' = Op("toggleAudio", "-", <<>>, <<>>, {})
  /\ UNCHANGED <<phase, participants, localStream, renderLS, isVideoEnabled,
                 isConnected, socketRef, peerConnectionsRef, initializationRef, pcs,
                 sockets, acqPending, acqStarted, iceLost, nEvents>>

toggleAudio ==
  /\ phase = "mounted"
  /\ IF renderLS # 0
     THEN /\ streams' = [streams EXCEPT ![renderLS].audio = ~streams[renderLS].audio]
          /\ isAudioEnabled' = ~streams[renderLS].audio
          /\ last' = [Op("toggleAudio", "-", <<>>,
                         IF socketRef # 0
                         THEN <<Msg("toggle-audio", "room", ~streams[renderLS].audio)>>
                         ELSE <<>>, {})
                        EXCEPT !.pre = <<localStream, streams[renderLS].audio,
                                         isAudioEnabled>>]
     ELSE /\ UNCHANGED <<streams, isAudioEnabled>>
          /\ last' = Op("toggleAudio", "-", <<>>, <<>>, {})
  /\ UNCHANGED <<phase, participants, localStream, renderLS, isVideoEnabled,
                 isConnected, socketRef, peerConnectionsRef, initializationRef, pcs,
                 sockets, acqPending, acqStarted, iceLost, nEvents>>

toggleVideo ==
  /\ phase = "mounted"
  /\ IF renderLS # 0
     THEN /\ streams' = [streams EXCEPT ![renderLS].video = ~streams[renderLS].video]
          /\ isVideoEnabled' = ~streams[renderLS].video
          /\ last' = [Op("toggleVideo", "-", <<>>,
                         IF socketRef # 0
                         THEN <<Msg("toggle-video", "room", ~streams[renderLS].video)>>
                         ELSE <<>>, {})
                        EXCEPT !.pre = <<localStream, streams[renderLS].video,
                                         isVideoEnabled>>]
     ELSE /\ UNCHANGED <<streams, isVideoEnabled>>
          /\ last' = Op("toggleVideo", "-", <<>>, <<>>, {})
  /\ UNCHANGED <<phase, participants, localStream, renderLS, isAudioEnabled,
                 isConnected, socketRef, peerConnectionsRef, initializationRef, pcs,
                 sockets, acqPending, acqStarted, iceLost, nEvents>>

----------------------------------------------------------------------------
Next ==
  \/ Mount
  \/ Render
  \/ MediaResolved
  \/ MediaRejected
  \/ LeaveRoom
  \/ Unmount
  \/ \E k \in 1..MaxSockets : SocketConnect(k)
  \/ \E k \in 1..MaxSockets : \E r \in Rosters : RoomParticipants(k, r)
  \/ \E k \in 1..MaxSockets : \E s \in SocketIds : UserJoined(k, s)
  \/ \E k \in 1..MaxSockets : \E s \in Leavers : UserLeft(k, s)
  \/ \E k \in 1..MaxSockets : \E s \in SocketIds : HandleOffer(k, s)
  \/ \E k \in 1..MaxSockets : \E s \in SocketIds : HandleAnswer(k, s)
  \/ \E k \in 1..MaxSockets : \E s \in SocketIds : HandleIceCandidate(k, s)
  \/ \E i \in 1..MaxPc : NegStep(i)
  \/ toggleAudio
  \/ toggleVideo
  \/ MediaResolvedIoThrows
  \/ \E i \in 1..MaxPc : OnTrack(i)
  \/ \E k \in 1..MaxSockets : \E s \in Leavers : \E v \in BOOLEAN :
       ParticipantAudioToggle(k, s, v)
  \/ \E k \in 1..MaxSockets : \E s \in Leavers : \E v \in BOOLEAN :
       ParticipantVideoToggle(k, s, v)

Spec == Init /\ [][Next]_vars

\* The hook without the local toggles.  toggleAudio and toggleVideo read and
\* write only the enabled flags of the local tracks and their mirrors
\* isAudioEnabled / isVideoEnabled, which no other operation reads, so the
\* signaling behaviour is the same with and without them.
NextSignaling ==
  \/ Mount
  \/ Render
  \/ MediaResolved
  \/ MediaRejected
  \/ LeaveRoom
  \/ Unmount
  \/ \E k \in 1..MaxSockets : SocketConnect(k)
  \/ \E k \in 1..MaxSockets : \E r \in Rosters : RoomParticipants(k, r)
  \/ \E k \in 1..MaxSockets : \E s \in SocketIds : UserJoined(k, s)
  \/ \E k \in 1..MaxSockets : \E s \in Leavers : UserLeft(k, s)
  \/ \E k \in 1..MaxSockets : \E s \in SocketIds : HandleOffer(k, s)
  \/ \E k \in 1..MaxSockets : \E s \in SocketIds : HandleAnswer(k, s)
  \/ \E k \in 1..MaxSockets : \E s \in SocketIds : HandleIceCandidate(k, s)
  \/ \E i \in 1..MaxPc : NegStep(i)

SignalingSpec == Init /\ [][NextSignaling]_vars

\* The hook in a room where no remote session sends anything: the lifecycle
\* of the local media and of the socket, and the local toggles.
NextMedia ==
  \/ Mount
  \/ Render
  \/ MediaResolved
  \/ MediaRejected
  \/ LeaveRoom
  \/ Unmount
  \/ \E k \in 1..MaxSockets : SocketConnect(k)
  \/ toggleAudio
  \/ toggleVideo

MediaSpec == Init /\ [][NextMedia]_vars

\* The participant list: the roster events, the offers and answers that give
\* connections a remote description, the inbound tracks and the remote
\* toggles.
NextTrack ==
  \/ Mount
  \/ Render
  \/ MediaResolved
  \/ MediaRejected
  \/ LeaveRoom
  \/ Unmount
  \/ \E k \in 1..MaxSockets : SocketConnect(k)
  \/ \E k \in 1..MaxSockets : \E r \in Rosters : RoomParticipants(k, r)
  \/ \E k \in 1..MaxSockets : \E s \in SocketIds : UserJoined(k, s)
  \/ \E k \in 1..MaxSockets : \E s \in Leavers : UserLeft(k, s)
  \/ \E k \in 1..MaxSockets : \E s \in SocketIds : HandleOffer(k, s)
  \/ \E k \in 1..MaxSockets : \E s \in SocketIds : HandleAnswer(k, s)
  \/ \E i \in 1..MaxPc : NegStep(i)
  \/ \E i \in 1..MaxPc : OnTrack(i)
  \/ \E k \in 1..MaxSockets : \E s \in Leavers : \E v \in BOOLEAN :
       ParticipantAudioToggle(k, s, v)
  \/ \E k \in 1..MaxSockets : \E s \in Leavers : \E v \in BOOLEAN :
       ParticipantVideoToggle(k, s, v)

TrackSpec == Init /\ [][NextTrack]_vars

\* The same room, where opening the signaling socket may throw.
NextJoinFail ==
  \/ Mount
  \/ Render
  \/ MediaResolved
  \/ MediaResolvedIoThrows
  \/ MediaRejected
  \/ LeaveRoom
  \/ Unmount
  \/ \E k \in 1..MaxSockets : SocketConnect(k)
  \/ toggleAudio
  \/ toggleVideo

JoinFailSpec == Init /\ [][NextJoinFail]_vars

TypeOK ==
  /\ phase \in {"rendered", "mounted", "unmounted"}
  /\ localStream \in 0..MaxStreams
  /\ renderLS \in 0..MaxStreams
  /\ socketRef \in 0..MaxSockets
  /\ Len(pcs) <= MaxPc
  /\ acqPending \in 0..1

----------------------------------------------------------------------------
\* Properties.

Live(i) == ~pcs[i].closed

\* C1: at any time there is at most one live (not closed) peer connection
\* per transport session id.
OneLivePeerPerSession ==
  \A i, j \in DOMAIN pcs :
    (i # j /\ pcs[i].peer = pcs[j].peer) => (pcs[i].closed \/ pcs[j].closed)

\* C2: no ice-candidate received from a session that is alive is discarded:
\* each one is applied to the session's connection or kept for it.
NoCandidateDiscarded == iceLost = {}

\* C3: after leaveRoom() has returned every connection created so far is
\* closed and the registry is empty, every local track is stopped and the
\* local stream handle is cleared, the socket is disconnected and dropped,
\* the participant list is empty and isConnected is false.
LeaveReleasesEverything ==
  last.op = "leaveRoom" =>
    /\ \A i \in DOMAIN pcs : pcs[i].closed
    /\ \A s \in SocketIds : peerConnectionsRef[s] = 0
    /\ \A n \in DOMAIN streams : streams[n].stopped
    /\ localStream = 0
    /\ socketRef = 0
    /\ \A k \in DOMAIN sockets : ~sockets[k].open
    /\ participants = <<>>
    /\ ~isConnected

\* C4: a leaveRoom() that directly follows a leaveRoom() leaves the
\* registry, the participant list, the local stream handle, the socket
\* reference and isConnected as the first call left them.
SecondLeaveIsNoOp ==
  [][(last.op = "leaveRoom" /\ last'.op = "leaveRoom") =>
       /\ peerConnectionsRef' = peerConnectionsRef
       /\ participants' = participants
       /\ localStream' = localStream
       /\ socketRef' = socketRef
       /\ isConnected' = isConnected]_vars

\* C4 witness: a second leaveRoom() in a row has run, the first of them
\* having been called with a stream held.
SecondLeaveDone ==
  /\ last.op = "leaveRoom"
  /\ last.rep
  /\ Len(streams) > 0
  /\ \E i \in DOMAIN pcs : pcs[i].closed

\* C5: getUserMedia is called at most once between mount and unmount.
AcquiredAtMostOnce == acqStarted <= 1

\* C6: after a room-participants event listing N participants with pairwise
\* distinct socket ids, the participant list has exactly N entries, one per
\* listed socket id, and the local session is not among them.
RosterYieldsExactlyN ==
  last.op = "room-participants" =>
    /\ Len(participants) = Len(last.roster)
    /\ Keys(participants) = Range(last.roster)
    /\ Cardinality(Keys(participants)) = Len(participants)
    /\ LocalSocketId \notin Keys(participants)

\* C6 witness: a roster of two sessions has been processed.
RosterOfTwoProcessed ==
  /\ last.op = "room-participants"
  /\ Len(last.roster) = 2
  /\ Len(participants) = 2

UserLeftRemovesDeparted ==
  (last.op = "user-left" /\ last.sid \in SocketIds) =>
    /\ last.sid \notin Keys(participants)
    /\ peerConnectionsRef[last.sid] = 0

ToggleTwiceRestores ==
  [][/\ (/\ last.op = "toggleAudio" /\ last.pre # <<>> /\ last.pre[1] = renderLS
         /\ last'.op = "toggleAudio" /\ last'.pre # <<>>)
        => (/\ localStream' = last.pre[1]
            /\ streams'[renderLS].audio = last.pre[2]
            /\ isAudioEnabled' = last.pre[3])
     /\ (/\ last.op = "toggleVideo" /\ last.pre # <<>> /\ last.pre[1] = renderLS
         /\ last'.op = "toggleVideo" /\ last'.pre # <<>>)
        => (/\ localStream' = last.pre[1]
            /\ streams'[renderLS].video = last.pre[2]
            /\ isVideoEnabled' = last.pre[3])]_vars

\* C11: when the local side has initiated toward a session and that session's
\* own offer arrives, exactly one live connection for the session remains, and
\* the local side is its initiator if the local id is the smaller one, its
\* responder otherwise.
TieBreakBySmallerId ==
  (/\ last.op = "offer"
   /\ \E i \in DOMAIN pcs \ last.created :
        pcs[i].peer = last.sid /\ pcs[i].role = "initiator" /\ pcs[i].emitted = 1)
  => /\ Cardinality({i \in DOMAIN pcs : pcs[i].peer = last.sid /\ Live(i)}) = 1
     /\ peerConnectionsRef[last.sid] # 0
     /\ pcs[peerConnectionsRef[last.sid]].role =
          IF IdLess(LocalUserId, Ident(last.sid)) THEN "initiator" ELSE "responder"

\* Some getUserMedia call has been rejected.
AcqFailed == acqStarted > Len(streams) + acqPending

\* C12: a socket is opened only with a stream that getUserMedia has
\* delivered, join-room is emitted only by the connect handler of a connected
\* socket, and once an acquisition has failed no socket is opened, no
\* join-room is emitted, isConnected is false and no acquisition is started.
StartupSequenced ==
  /\ [](/\ \A k \in DOMAIN sockets : sockets[k].hStream \in DOMAIN streams
        /\ \A n \in DOMAIN last.emits :
             last.emits[n].type = "join-room" =>
               /\ last.op = "connect"
               /\ last.emits[n].val \in DOMAIN sockets
               /\ sockets[last.emits[n].val].connected
        /\ AcqFailed => (~isConnected /\ socketRef = 0))
  /\ [][AcqFailed => /\ acqStarted' = acqStarted
                     /\ sockets' = sockets
                     /\ socketRef' = 0
                     /\ ~isConnected'
                     /\ last'.emits = <<>>]_vars

\* C12 witness: an acquisition has failed and the hook has gone on running.
FailedAcquisitionOutlived ==
  /\ AcqFailed
  /\ last.op \in {"leaveRoom", "toggleAudio", "toggleVideo"}

\* C13: when a join attempt has failed after the local stream was acquired,
\* the stream is released: its tracks are stopped and the handle is cleared.
FailedJoinReleasesMedia ==
  last.op = "join-failed" =>
    /\ localStream = 0
    /\ \A n \in DOMAIN streams : streams[n].stopped

\* C14: a closed peer connection is never used again: the registry never
\* holds a closed connection, and no step (a signaling handler or the
\* continuation of a negotiation that was in flight when it was closed)
\* changes a closed connection.
ClosedNeverUsed ==
  /\ [](\A s \in SocketIds :
          peerConnectionsRef[s] # 0 => ~pcs[peerConnectionsRef[s]].closed)
  /\ [][\A i \in DOMAIN pcs : pcs[i].closed => pcs'[i] = pcs[i]]_vars

\* A connection was closed while its negotiation was in flight, and a
\* signaling event from its peer has been handled since.
EventAfterClose ==
  /\ last.op \in {"ice-candidate", "answer", "offer"}
  /\ \E i \in DOMAIN pcs \ last.created :
       pcs[i].closed /\ pcs[i].neg = "pending" /\ pcs[i].peer = last.sid

\* C15: a participant entry's remote stream is absent until the peer
\* connection of that same session has reported a track: a stream that is
\* set belongs to a connection created for the entry's session, and the only
\* step that sets or replaces it is a track event of that session.
StreamOf(m, s) == IF s \in Keys(m) THEN m[IndexOfKey(m, s)].stream ELSE 0

RemoteStreamOnlyFromTrack ==
  /\ [](\A n \in DOMAIN participants :
          participants[n].stream # 0 =>
            /\ participants[n].stream \in DOMAIN pcs
            /\ pcs[participants[n].stream].peer = participants[n].socketId
            /\ pcs[participants[n].stream].remote)
  /\ [][\A s \in SocketIds :
          (/\ StreamOf(participants', s) # 0
           /\ StreamOf(participants', s) # StreamOf(participants, s))
          => last'.op = "track" /\ last'.sid = s]_vars

\* Two sessions are listed, the second one's connection has reported a
\* track, and the first one's stream is still absent.
TrackReportedForOne ==
  /\ last.op = "track"
  /\ Len(participants) = 2
  /\ participants[1].stream = 0
  /\ participants[2].stream # 0

\* C16 as stated: after a user-joined event for session X, exactly one
\* connection for X is registered, with role responder, and no offer
\* addressed to X has been emitted by the event.
UserJoinedCreatesResponder ==
  last.op = "user-joined" =>
    /\ peerConnectionsRef[last.sid] # 0
    /\ pcs[peerConnectionsRef[last.sid]].role = "responder"
    /\ Cardinality({i \in DOMAIN pcs : pcs[i].peer = last.sid /\ Live(i)}) = 1
    /\ \A n \in DOMAIN last.emits : last.emits[n].type # "offer"

\* C16 amended: a user-joined event for session X lists X, creates and
\* registers no connection and emits nothing; the responder connection for X
\* is created and registered by the offer that X sends.
UserJoinedListsOfferCreatesResponder ==
  /\ [][last'.op = "user-joined" =>
          /\ last'.sid \in Keys(participants')
          /\ pcs' = pcs
          /\ peerConnectionsRef' = peerConnectionsRef
          /\ last'.emits = <<>>]_vars
  /\ [][last'.op = "offer" =>
          /\ Len(pcs') = Len(pcs) + 1
          /\ peerConnectionsRef'[last'.sid] = Len(pcs')
          /\ pcs'[Len(pcs')].role = "responder"
          /\ pcs'[Len(pcs')].peer = last'.sid
          /\ last'.emits = <<>>]_vars

\* A session that was announced by user-joined (it is listed and the local
\* side never initiated towards it) has sent its offer.
JoinerOfferHandled ==
  /\ last.op = "offer"
  /\ last.sid \in Keys(participants)
  /\ \A i \in DOMAIN pcs : pcs[i].peer = last.sid => pcs[i].role = "responder"

Rejected(op, s) ==
  /\ s \in SocketIds
  /\ peerConnectionsRef[s] # 0
  /\ \/ op = "answer" /\ SignalingState(pcs[peerConnectionsRef[s]]) # "have-local-offer"
     \/ op = "ice-candidate" /\ ~pcs[peerConnectionsRef[s]].remote

FailedNegotiationClosesSession ==
  [][Rejected(last'.op, last'.sid) =>
       /\ pcs'[peerConnectionsRef[last'.sid]].closed
       /\ peerConnectionsRef'[last'.sid] = 0
       /\ \A i \in DOMAIN pcs : i # peerConnectionsRef[last'.sid] => pcs'[i] = pcs[i]
       /\ participants' = participants]_vars

\* C21: after leaveRoom has been called (here: by the cleanup at unmount,
\* after which the component calls nothing any more), no step emits a
\* signaling event on any socket.
NoEmitAfterLeave ==
  phase = "unmounted" => last.emits = <<>>

\* C22: processing an event of session X (offer, answer, ice-candidate,
\* track, user-left, a negotiation step) leaves every other session's
\* connections, registry entry and participant entry (with its stream)
\* unchanged.
EntryOf(m, s) == IF s \in Keys(m) THEN <<m[IndexOfKey(m, s)]>> ELSE <<>>

OtherSessionsUntouched ==
  [][last'.op \in {"offer", "answer", "ice-candidate", "track", "user-left",
                   "negotiation"} =>
       \A y \in SocketIds \ {last'.sid} :
         /\ EntryOf(participants', y) = EntryOf(participants, y)
         /\ peerConnectionsRef'[y] = peerConnectionsRef[y]
         /\ \A i \in DOMAIN pcs : pcs[i].peer = y => pcs'[i] = pcs[i]]_vars

\* C23: acquisition and release of the local media exclude each other: at
\* most one getUserMedia call is pending, and leaveRoom (whose second step
\* releases the media) never runs while one is pending.
AcquireExcludesRelease ==
  /\ [](acqPending <= 1)
  /\ [][acqPending > 0 => last'.op # "leaveRoom"]_vars

WithAudio(m, s, v) ==
  IF s \in Keys(m) THEN [m EXCEPT ![IndexOfKey(m, s)].audioEnabled = v] ELSE m
WithVideo(m, s, v) ==
  IF s \in Keys(m) THEN [m EXCEPT ![IndexOfKey(m, s)].videoEnabled = v] ELSE m

RemoteToggleSetsOneFlag ==
  /\ [][last'.op = "participant-audio-toggle" =>
          participants' = WithAudio(participants, last'.sid, last'.pre[1])]_vars
  /\ [][last'.op = "participant-video-toggle" =>
          participants' = WithVideo(participants, last'.sid, last'.pre[1])]_vars

\* C26: every session that has a connection in the registry is listed in
\* the participant map.
RegisteredSessionsAreListed ==
  \A s \in SocketIds : peerConnectionsRef[s] # 0 => s \in Keys(participants)

\* C27: when leaveRoom has run while the acquisition started by
\* connectToRoom was pending, the resolution of that acquisition opens no
\* socket and leaves no unstopped local stream held.
LeftWhilePending == acqPending > 0 /\ ~initializationRef

LateResolutionStaysLeft ==
  [][(LeftWhilePending /\ last'.op = "acquired") =>
       /\ sockets' = sockets
       /\ socketRef' = 0
       /\ ~isConnected'
       /\ localStream' = 0 \/ streams'[localStream'].stopped
       /\ \A n \in DOMAIN streams' : streams'[n].stopped]_vars

\* C28: after leaveRoom has been called on the mounted hook, with no
\* acquisition pending and the local stream released, the hook stays left: the next step starts no media
\* acquisition, opens no socket and leaves isConnected false.
StaysLeftAfterLeave ==
  [][(last.op = "leaveRoom" /\ phase = "mounted" /\ acqPending = 0 /\ localStream = 0) =>
       /\ acqStarted' = acqStarted
       /\ Len(sockets') = Len(sockets)
       /\ socketRef' = 0
       /\ ~isConnected']_vars

\* C29: whenever a local stream is held, isAudioEnabled equals the enabled
\* flag of its audio track and isVideoEnabled that of its video track.
MirrorsMatchTracks ==
  (localStream # 0 /\ localStream = renderLS) =>
    /\ isAudioEnabled = streams[localStream].audio
    /\ isVideoEnabled = streams[localStream].video

\* C30: every offer and every answer emitted comes from a connection that
\* carries the tracks of the local stream currently held, which is not
\* stopped.
DescriptionsCarryLiveTracks ==
  [][\A n \in DOMAIN last'.emits :
       last'.emits[n].type \in {"offer", "answer"} =>
         /\ pcs[last'.emits[n].val].tracks # 0
         /\ pcs[last'.emits[n].val].tracks = localStream
         /\ ~streams[pcs[last'.emits[n].val].tracks].stopped]_vars

====
